---- MODULE Spec2Model ----
(***************************************************************************)
(* A model of models/bs_roformer21.py: the band mapper (StftToImage), the  *)
(* patch embedder (patchify / unpatchify), the alternating-axis            *)
(* transformer stack (TransformerLayers) and the separation model          *)
(* (BSRoformer21a: construction and forward).                              *)
(*                                                                         *)
(* Tensors are functions over 0-based index ranges, as in the source.      *)
(* Real-valued weights are fixed-point: a mel weight w is held as the      *)
(* numerator w * One, One being the numerator of 1.0.                      *)
(***************************************************************************)
EXTENDS Integers, Sequences, FiniteSets, TLC

(***************************************************************************)
(* Bounds of the model.                                                    *)
(***************************************************************************)
\* n_fft of a band mapper ranges over 2, 4, ..., 2 * MaxHalfNfft
MaxHalfNfft == 3
\* batch sizes 1 .. MaxBatch
MaxBatch == 1
\* time frames 1 .. MaxFrames of a band mapper input
MaxFrames == 2
\* patchify inputs: time lengths 1 .. MaxPatchFrames, bands 1 .. MaxPatchBands
MaxPatchFrames == 9
MaxPatchBands == 8
\* model widths 1 .. MaxDim and head counts 1 .. MaxHeads
MaxDim == 2
MaxHeads == 2
\* spectrogram frames 1 .. MaxSpecFrames of a forward call
MaxSpecFrames == 5
\* TransformerLayers on its own: depth 1 .. MaxStackDepth, grids up to
\* MaxGridB by MaxGridT by MaxGridF
MaxStackDepth == 2
MaxGridB == 2
MaxGridT == 3
MaxGridF == 3

(***************************************************************************)
(* Program constants.                                                      *)
(***************************************************************************)
\* BSRoformer21a.__init__: cmplx_num
cmplx_num == 2
\* BSRoformer21a.__init__: mel_bins (256 in the source; scaled to the least
\* value the frequency patch extent divides, two mel filters and two edge bands)
mel_bins == 4
\* BSRoformer21a.__init__: out_channels (64 in the source, scaled; it stays
\* at least as wide as every band's flattened channel-bin vector)
out_channels == 16

\* the mel weights tried, as numerators: 0, 1/2 and 1
WeightLevels == {0, 1, 2}

\* the numerator of the weight 1.0
One == CHOOSE w \in WeightLevels : \A v \in WeightLevels : v <= w

R(n) == 0 .. (n - 1)

RECURSIVE SumTo(_, _)
\* sum of g[0] .. g[n-1]
SumTo(g, n) == IF n = 0 THEN 0 ELSE SumTo(g, n - 1) + g[n - 1]

Abs(a) == IF a < 0 THEN -a ELSE a

(***************************************************************************)
(* StftToImage                                                             *)
(***************************************************************************)
VARIABLES
    n_fft,          \* StftToImage.n_fft
    in_channels,    \* StftToImage.in_channels
    mel,            \* the table librosa.filters.mel returned (rows 1 .. mel_bins-2)
    sti,            \* "new", "constructed" or "failed" (AssertionError)
    melbanks,       \* StftToImage.melbanks: band -> bin -> weight numerator
    indexes,        \* StftToImage.indexes: band -> ascending sequence of bins
    nets,           \* parameters loaded into band_nets / inv_band_nets
    x_in,           \* input of transform
    img,            \* result of transform
    y_out,          \* result of inverse_transform
    writes,         \* per output bin, the number of += contributions it received
    band_pc,        \* "idle", "transformed", "inverted" or "raised"
    \* BSRoformer21a configuration and instance
    input_channels, \* BSRoformer21a.input_channels
    depth,          \* BSRoformer21a.depth
    dim,            \* BSRoformer21a.dim
    n_heads,        \* BSRoformer21a.n_heads
    head_dim,       \* BSRoformer21a.head_dim
    model,          \* "new", "constructed" or "failed"
    transformers,   \* len(encoder1.transformers): the (time, freq) block pairs built
    \* patchify / unpatchify called on their own
    pe_pc,          \* "idle", "patchified", "unpatchified" or "raised"
    pe_x,           \* shape of the input of patchify
    pe_frames,      \* time axis after F.pad: TRUE an input frame, FALSE a zero frame
    pe_tokens,      \* shape of the result of patchify
    pe_y,           \* shape of the result of unpatchify
    \* one call of BSRoformer21a.forward
    fwd_pc,         \* the statement of forward that runs next
    mixture,        \* the call's input: channels, and whether every sample is finite
    complex_sp,     \* shape of the spectrogram self.stft returned
    time_steps,     \* complex_sp.shape[2]
    cur,            \* shape of x
    has_nan,        \* x holds a NaN
    stages_run,     \* iterations of the encoder loop completed in this call
    mask,           \* shape of the complex mask
    \* one call of TransformerLayers.forward on a labelled grid
    tl_pc,          \* the statement that runs next
    tl_depth,       \* len(self.transformers)
    tl_shape,       \* (_B, _D, _T, _F)
    tl_x,           \* x: every cell holds the grid coordinates it came from
    tl_stage,       \* pairs of blocks completed
    tl_resid        \* x as a sum: the sub-layer outputs added to the input so far

bandVars == <<n_fft, in_channels, mel, sti, melbanks, indexes, nets,
              x_in, img, y_out, writes, band_pc>>
cfgVars == <<input_channels, depth, dim, n_heads, head_dim, model, transformers>>
patchVars == <<pe_pc, pe_x, pe_frames, pe_tokens, pe_y>>
fwdVars == <<fwd_pc, mixture, complex_sp, time_steps, cur, has_nan, stages_run, mask>>
stackVars == <<tl_pc, tl_depth, tl_shape, tl_x, tl_stage, tl_resid>>
vars == <<bandVars, cfgVars, patchVars, fwdVars, stackVars>>

NoTensor == <<>>

NoShape == <<>>

\* the band mapper before and outside any call
BandIdle ==
    /\ sti = "new"
    /\ melbanks = NoTensor
    /\ indexes = NoTensor
    /\ nets = [compress |-> "identity", expand |-> "identity"]
    /\ x_in = NoTensor
    /\ img = NoTensor
    /\ y_out = NoTensor
    /\ writes = NoTensor
    /\ band_pc = "idle"

PatchIdle ==
    /\ pe_pc = "idle"
    /\ pe_x = NoShape
    /\ pe_frames = <<>>
    /\ pe_tokens = NoShape
    /\ pe_y = NoShape

\* BSRoformer21a.__init__: the fields of an instance constructed with the
\* given options; the stack always holds 12 pairs of blocks
Configured(input_channels_, depth_, dim_, n_heads_) ==
    /\ input_channels = input_channels_
    /\ depth = depth_
    /\ dim = dim_
    /\ n_heads = n_heads_
    /\ head_dim = dim_ \div n_heads_
    /\ model = "constructed"
    /\ transformers = 12

\* an instance constructed with the default options: input_channels = 2,
\* depth = 12, dim = 384, n_heads = 12
CfgIdle == Configured(2, 12, 384, 12)

FwdIdle ==
    /\ fwd_pc = "idle"
    /\ mixture = [channels |-> 0, finite |-> TRUE]
    /\ complex_sp = NoShape
    /\ time_steps = 0
    /\ cur = NoShape
    /\ has_nan = FALSE
    /\ stages_run = 0
    /\ mask = NoShape

StackIdle ==
    /\ tl_pc = "idle"
    /\ tl_depth = 0
    /\ tl_shape = NoShape
    /\ tl_x = NoTensor
    /\ tl_stage = 0
    /\ tl_resid = <<>>


\* number of frequency bins of the spectrum: n_fft // 2 + 1
NBins(nfft) == nfft \div 2 + 1

\* A mel filter row: nonnegative weights, at most 1.
Rows(n, levels) == [R(n) -> levels]

\* What librosa.filters.mel(sr, n_fft, n_mels = mel_bins - 2, norm = None) can
\* return: mel_bins - 2 rows of nonnegative weights, none above 1, over the
\* n_fft // 2 + 1 bins.  A row may hold no bin at all (a filter narrower than
\* the bin spacing), and the last filter may keep a nonzero weight at the last
\* bin (the rounding residue of its upper edge fmax = sr / 2).
MelTables(nfft, levels) == [1 .. mel_bins - 2 -> Rows(NBins(nfft), levels)]

\* melbank_first = zeros; melbank_first[0] = 1.
melbank_first(n) == [k \in R(n) |-> IF k = 0 THEN One ELSE 0]

\* np.argmax: the first index of the greatest value
ArgMax(row) ==
    CHOOSE i \in DOMAIN row :
        /\ \A j \in DOMAIN row : row[j] <= row[i]
        /\ \A j \in DOMAIN row : j < i => row[j] < row[i]

\* melbank_last = zeros; idx = argmax(melbanks[-1]);
\* melbank_last[idx:] = 1 - melbanks[-1, idx:]
melbank_last(last_row) ==
    LET idx == ArgMax(last_row)
    IN  [k \in DOMAIN last_row |-> IF k >= idx THEN One - last_row[k] ELSE 0]

\* np.concatenate([melbank_first, melbanks, melbank_last], axis=0)
Concatenate(t, n) ==
    [f \in R(mel_bins) |->
        IF f = 0 THEN melbank_first(n)
        ELSE IF f = mel_bins - 1 THEN melbank_last(t[mel_bins - 2])
        ELSE t[f]]

\* np.sum(melbanks, axis=0)
sum_banks(banks, n) ==
    [k \in R(n) |-> SumTo([f \in R(mel_bins) |-> banks[f][k]], mel_bins)]

\* np.allclose with the tolerance taken too wide: atol = 1
AllCloseAtolOne(a, b) == Abs(a - b) <= One + Abs(b) \div 100000

\* np.allclose(a, b): |a - b| <= atol + rtol * |b| with atol = 1e-8 and
\* rtol = 1e-5, on numerators over One (both sides
\* times 1e8 * One)
AllClose(a, b) == Abs(a - b) * 100000000 <= One + 1000 * Abs(b)

\* assert np.allclose(a=sum_banks, b=1.)
AssertPartition(banks, n) ==
    \A k \in R(n) : AllClose(sum_banks(banks, n)[k], One)

RECURSIVE Ascending(_, _, _)
\* the members of S among lo .. hi - 1, in ascending order
Ascending(S, lo, hi) ==
    IF lo >= hi THEN <<>>
    ELSE IF lo \in S THEN <<lo>> \o Ascending(S, lo + 1, hi)
    ELSE Ascending(S, lo + 1, hi)

\* idxes = (melbanks[f] != 0).nonzero()[0]
Nonzero(row, n) == Ascending({k \in R(n) : row[k] # 0}, 0, n)

\* the parameter sets a constructed mapper may hold in a Linear layer
NetKinds == {"identity", "bias"}

\* weight[o][i] of a Linear layer of the given kind
NetWeight(kind, o, i) ==
    IF o = i THEN 1 ELSE 0

\* bias[o] of a Linear layer of the given kind
NetBias(kind, o) == IF kind = "bias" THEN 1 ELSE 0

\* nn.Linear(in_dim, out_dim) applied to a vector v over R(in_dim)
Linear(kind, in_dim, out_dim, v) ==
    [o \in R(out_dim) |->
        SumTo([i \in R(in_dim) |-> NetWeight(kind, o, i) * v[i]], in_dim)
            + NetBias(kind, o)]

\* transform, one band, one (b, t): bank = melbanks[f, idxes];
\* v = x[..., idxes] * bank; rearrange 'b c t q -> b t (c q)'; band_nets[f](v)
BandVector(x, banks, idxs, f, b, t) ==
    LET q == Len(idxs[f])
        c == in_channels
        v == [j \in R(c * q) |->
                x[b][j \div q][t][idxs[f][(j % q) + 1]]
                    * banks[f][idxs[f][(j % q) + 1]]]
    IN  Linear(nets.compress, c * q, out_channels, v)

\* StftToImage.transform: stack over bands, rearrange 'b t f d -> b d t f'
transform(x, banks, idxs, nb, nt) ==
    [b \in R(nb) |-> [d \in R(out_channels) |-> [t \in R(nt) |->
        [f \in R(mel_bins) |-> BandVector(x, banks, idxs, f, b, t)[d]]]]]

\* position (0-based) of bin k in the ascending sequence s
PosOf(s, k) == (CHOOSE p \in 1 .. Len(s) : s[p] = k) - 1

\* inverse_transform, one band: v = x[..., f]; 'b d t -> b t d';
\* inv_band_nets[f](v); 'b t (c q) -> b c t q' with q = len(idxes) >= 1
BandExpand(x, idxs, f, b, t) ==
    LET q == Len(idxs[f])
    IN  Linear(nets.expand, out_channels, in_channels * q,
               [d \in R(out_channels) |-> x[b][d][t][f]])

\* y[..., idxes] += v
ScatterAdd(y, x, idxs, f, nb, nt, n) ==
    LET q == Len(idxs[f])
        S == {idxs[f][p] : p \in 1 .. q}
    IN  [b \in R(nb) |-> [c \in R(in_channels) |-> [t \in R(nt) |->
            [k \in R(n) |->
                IF k \in S
                THEN y[b][c][t][k]
                        + BandExpand(x, idxs, f, b, t)[c * q + PosOf(idxs[f], k)]
                ELSE y[b][c][t][k]]]]]

RECURSIVE InverseLoop(_, _, _, _, _, _, _)
\* for f in range(self.mel_bins): ... y[..., idxes] += v.  For a band without
\* bins rearrange(v, 'b t (c q) -> b c t q', q=0) divides the axis length by
\* q and raises ZeroDivisionError; no tensor is returned.
InverseLoop(f, y, x, idxs, nb, nt, n) ==
    IF f = mel_bins THEN [ok |-> TRUE, y |-> y]
    ELSE IF Len(idxs[f]) = 0 THEN [ok |-> FALSE, y |-> NoTensor]
    ELSE InverseLoop(f + 1, ScatterAdd(y, x, idxs, f, nb, nt, n), x, idxs, nb, nt, n)

\* StftToImage.inverse_transform: y = zeros(B, in_channels, T, n_fft // 2 + 1);
\* the loop over the bands; return y
inverse_transform(x, idxs, nb, nt, n) ==
    InverseLoop(0,
        [b \in R(nb) |-> [c \in R(in_channels) |-> [t \in R(nt) |-> [k \in R(n) |-> 0]]]],
        x, idxs, nb, nt, n)

\* the number of += statements of a completed loop that write bin k
WriteCount(idxs, k) ==
    Cardinality({f \in R(mel_bins) : \E p \in 1 .. Len(idxs[f]) : idxs[f][p] = k})

\* a test input: every cell holds a different nonzero value
ProbeTensor(nb, nc, nt, n) ==
    [b \in R(nb) |-> [c \in R(nc) |-> [t \in R(nt) |-> [k \in R(n) |->
        1 + k + n * (t + nt * (c + nc * b))]]]]



BandInit ==
    /\ n_fft \in {2 * h : h \in 1 .. MaxHalfNfft}
    /\ mel \in MelTables(n_fft, WeightLevels)
    /\ BandIdle
    /\ CfgIdle
    /\ in_channels = input_channels * cmplx_num
    /\ PatchIdle
    /\ FwdIdle
    /\ StackIdle

\* StftToImage.__init__
StftToImageInit ==
    /\ sti = "new"
    /\ LET n == NBins(n_fft)
           banks == Concatenate(mel, n)
       IN  IF AssertPartition(banks, n)
           THEN /\ sti' = "constructed"
                /\ melbanks' = banks
                /\ indexes' = [f \in R(mel_bins) |-> Nonzero(banks[f], n)]
                /\ \E kc \in NetKinds, ke \in NetKinds :
                       nets' = [compress |-> kc, expand |-> ke]
           ELSE /\ sti' = "failed"
                /\ UNCHANGED <<melbanks, indexes, nets>>
    /\ UNCHANGED <<n_fft, in_channels, mel, x_in, img, y_out, writes, band_pc>>
    /\ UNCHANGED <<cfgVars, patchVars, fwdVars, stackVars>>

\* StftToImage.transform on a (b, c, t, f) input
Transform ==
    /\ sti = "constructed"
    /\ band_pc = "idle"
    /\ \E nb \in 1 .. MaxBatch, nt \in 1 .. MaxFrames :
        LET x == ProbeTensor(nb, in_channels, nt, NBins(n_fft))
        IN  /\ x_in' = x
            /\ img' = transform(x, melbanks, indexes, nb, nt)
    /\ band_pc' = "transformed"
    /\ UNCHANGED <<n_fft, in_channels, mel, sti, melbanks, indexes, nets, y_out, writes>>
    /\ UNCHANGED <<cfgVars, patchVars, fwdVars, stackVars>>

\* StftToImage.inverse_transform on the image
InverseTransform ==
    /\ band_pc = "transformed"
    /\ LET nb == Cardinality(DOMAIN img)
           nt == Cardinality(DOMAIN img[0][0])
           n == n_fft \div 2 + 1
           r == inverse_transform(img, indexes, nb, nt, n)
       IN  IF r.ok
           THEN /\ y_out' = r.y
                /\ writes' = [k \in R(n) |-> WriteCount(indexes, k)]
                /\ band_pc' = "inverted"
           ELSE /\ band_pc' = "raised"
                /\ UNCHANGED <<y_out, writes>>
    /\ UNCHANGED <<n_fft, in_channels, mel, sti, melbanks, indexes, nets, x_in, img>>
    /\ UNCHANGED <<cfgVars, patchVars, fwdVars, stackVars>>

BandNext == StftToImageInit \/ Transform \/ InverseTransform

SpecBand == BandInit /\ [][BandNext]_vars

(***************************************************************************)
(* Shapes.  A shape is a sequence of axis lengths; an operation on shapes  *)
(* either yields a shape or raises.                                        *)
(***************************************************************************)
Raised == [ok |-> FALSE, shape |-> <<>>]

Ok(s) == [ok |-> TRUE, shape |-> s]

\* BSRoformer21a.__init__: self.patch_size = (4, 4)
patch_size == <<4, 4>>

\* np.prod(self.patch_size)
PatchProd == patch_size[1] * patch_size[2]

\* int(np.ceil(a / b))
Ceil(a, b) == IF a % b = 0 THEN a \div b ELSE a \div b + 1

\* a pad length that adds a whole patch when the extent divides T
PadLenFullPatch(T) == patch_size[1] - (T % patch_size[1])

\* patchify: pad_len = int(np.ceil(T / patch_size_t)) * patch_size_t - T
PadLen(T) == Ceil(T, patch_size[1]) * patch_size[1] - T

\* patchify: F.pad(x, pad=(0, 0, 0, pad_len)): the frequency axis gets (0, 0),
\* the time axis (0, pad_len)
PadShape(s) == <<s[1], s[2], s[3] + PadLen(s[3]), s[4] + 0>>

\* the time axis after F.pad: the input's frames, then pad_len frames of zeros
PadFrames(T) == [i \in 1 .. T + PadLen(T) |-> i <= T]

\* nn.Linear(in_features, out_features) on a tensor whose last axis has length n
LinearShape(s, in_features, out_features) ==
    IF s[Len(s)] # in_features THEN Raised
    ELSE Ok([i \in 1 .. Len(s) |-> IF i = Len(s) THEN out_features ELSE s[i]])

\* BSRoformer21a.patchify, on shapes
patchify(s, dim_) ==
    LET t2 == patch_size[1]
        f2 == patch_size[2]
        p == PadShape(s)
    IN  \* rearrange 'b d (t1 t2) (f1 f2) -> b t1 f1 (t2 f2 d)'
        IF p[3] % t2 # 0 \/ p[4] % f2 # 0 THEN Raised
        ELSE LET tiles == <<p[1], p[3] \div t2, p[4] \div f2, t2 * f2 * p[2]>>
                 y == LinearShape(tiles, out_channels * PatchProd, dim_)  \* fc_in
             IN  IF ~y.ok THEN Raised
                 ELSE \* rearrange 'b t f d -> b d t f'
                      Ok(<<y.shape[1], y.shape[4], y.shape[2], y.shape[3]>>)

Min(a, b) == IF a < b THEN a ELSE b

\* x[:, :, 0 : time_steps, :]
SliceTime(s, steps) == <<s[1], s[2], Min(s[3], steps), s[4]>>

\* BSRoformer21a.unpatchify, on shapes
unpatchify(s, steps, dim_) ==
    LET t2 == patch_size[1]
        f2 == patch_size[2]
        \* rearrange 'b d t f -> b t f d', then fc_out
        y == LinearShape(<<s[1], s[3], s[4], s[2]>>, dim_, out_channels * PatchProd)
    IN  IF ~y.ok THEN Raised
        ELSE \* rearrange 'b t1 f1 (t2 f2 d) -> b d (t1 t2) (f1 f2)'
             IF y.shape[4] % (t2 * f2) # 0 THEN Raised
             ELSE Ok(SliceTime(<<y.shape[1], y.shape[4] \div (t2 * f2),
                                 y.shape[2] * t2, y.shape[3] * f2>>, steps))

\* StftToImage.transform, on shapes: x[..., idxes] needs every index on the
\* last axis; band_nets[f] is a Linear(len(idxes) * in_channels, out_channels)
\* applied to an axis of length c * len(idxes)
TransformShape(s, idxs, in_ch) ==
    IF \E f \in R(mel_bins) : \E p \in 1 .. Len(idxs[f]) : idxs[f][p] >= s[4]
    THEN Raised
    ELSE IF \E f \in R(mel_bins) :
              ~LinearShape(<<s[1], s[3], s[2] * Len(idxs[f])>>,
                           Len(idxs[f]) * in_ch, out_channels).ok
    THEN Raised
    ELSE Ok(<<s[1], out_channels, s[3], mel_bins>>)

\* StftToImage.inverse_transform, on shapes: y = zeros(B, in_channels, T,
\* n_fft // 2 + 1); x[..., f] for f in range(mel_bins); inv_band_nets[f] is a
\* Linear(out_channels, len(idxes) * in_channels);
\* rearrange 'b t (c q) -> b c t q' with q = len(idxes) raises when q = 0
InverseShape(s, idxs, in_ch, nfft) ==
    IF s[4] < mel_bins THEN Raised
    ELSE IF \E f \in R(mel_bins) :
              ~LinearShape(<<s[1], s[3], s[2]>>, out_channels, Len(idxs[f]) * in_ch).ok
    THEN Raised
    ELSE IF \E f \in R(mel_bins) : Len(idxs[f]) = 0
    THEN Raised
    ELSE Ok(<<s[1], in_ch, s[3], nfft \div 2 + 1>>)

(***************************************************************************)
(* patchify / unpatchify called on their own                               *)
(***************************************************************************)
PatchInit ==
    /\ n_fft = 2
    /\ in_channels = 2 * cmplx_num
    /\ mel = NoTensor
    /\ BandIdle
    /\ \E d \in 1 .. MaxDim : Configured(2, 12, d, 1)
    /\ PatchIdle
    /\ FwdIdle
    /\ StackIdle

\* self.patchify(x) on an input of shape (B, out_channels, T, Freq)
Patchify ==
    /\ pe_pc = "idle"
    /\ \E B \in 1 .. MaxBatch, T \in 1 .. MaxPatchFrames, Fq \in 1 .. MaxPatchBands :
        LET s == <<B, out_channels, T, Fq>>
            r == patchify(s, dim)
        IN  /\ pe_x' = s
            /\ pe_frames' = PadFrames(T)
            /\ pe_tokens' = r.shape
            /\ pe_pc' = IF r.ok THEN "patchified" ELSE "raised"
    /\ UNCHANGED pe_y
    /\ UNCHANGED <<bandVars, cfgVars, fwdVars, stackVars>>

\* self.unpatchify(x, time_steps) on the result, with the input's time length
Unpatchify ==
    /\ pe_pc = "patchified"
    /\ LET r == unpatchify(pe_tokens, pe_x[3], dim)
       IN  /\ pe_y' = r.shape
           /\ pe_pc' = IF r.ok THEN "unpatchified" ELSE "raised"
    /\ UNCHANGED <<pe_x, pe_frames, pe_tokens>>
    /\ UNCHANGED <<bandVars, cfgVars, fwdVars, stackVars>>

PatchNext == Patchify \/ Unpatchify

SpecPatch == PatchInit /\ [][PatchNext]_vars

(***************************************************************************)
(* TransformerLayers and TransformerBlock                                  *)
(***************************************************************************)
\* sizes of a tensor's axes, as x.shape
Shape3(x) ==
    <<Cardinality(DOMAIN x), Cardinality(DOMAIN x[0]), Cardinality(DOMAIN x[0][0])>>

Shape4(x) ==
    <<Cardinality(DOMAIN x), Cardinality(DOMAIN x[0]), Cardinality(DOMAIN x[0][0]),
      Cardinality(DOMAIN x[0][0][0])>>

\* rearrange(x, 'b d t f -> (b f) t d')
RearrangeBFxTxD(x) ==
    LET s == Shape4(x)
    IN  [r \in R(s[1] * s[4]) |-> [t \in R(s[3]) |-> [d \in R(s[2]) |->
            x[r \div s[4]][d][t][r % s[4]]]]]

\* the second rearrange reading the folded axis as (f b)
RearrangeBTxFxDSwapped(x, B) ==
    LET s == Shape3(x)
        F == s[1] \div B
    IN  [r \in R(B * s[2]) |-> [f \in R(F) |-> [d \in R(s[3]) |->
            x[f * B + (r \div s[2])][r % s[2]][d]]]]

\* rearrange(x, '(b f) t d -> (b t) f d', b=_B)
RearrangeBTxFxD(x, B) ==
    LET s == Shape3(x)
        F == s[1] \div B
    IN  [r \in R(B * s[2]) |-> [f \in R(F) |-> [d \in R(s[3]) |->
            x[(r \div s[2]) * F + f][r % s[2]][d]]]]

\* rearrange(x, '(b t) f d -> b d t f', b=_B)
RearrangeBxDxTxF(x, B) ==
    LET s == Shape3(x)
        T == s[1] \div B
    IN  [b \in R(B) |-> [d \in R(s[3]) |-> [t \in R(T) |-> [f \in R(s[2]) |->
            x[b * T + t][f][d]]]]]

\* the shapes of the three rearranges
ShapeBFxTxD(s) == <<s[1] * s[4], s[3], s[2]>>

ShapeBTxFxD(s, B) ==
    IF s[1] % B # 0 THEN Raised ELSE Ok(<<B * s[2], s[1] \div B, s[3]>>)

ShapeBxDxTxF(s, B) ==
    IF s[1] % B # 0 THEN Raised ELSE Ok(<<B, s[3], s[1] \div B, s[2]>>)

\* two axis lengths broadcast together
Broadcasts(a, b) == a = b \/ a = 1 \/ b = 1

\* the shape of a + b or a * b for tensors of shapes s and u of the same rank
BroadcastShape(s, u) ==
    IF \A i \in 1 .. Len(s) : Broadcasts(s[i], u[i])
    THEN Ok([i \in 1 .. Len(s) |-> IF s[i] > u[i] THEN s[i] ELSE u[i]])
    ELSE Raised

\* RMSNorm.forward, on shapes: x * rsqrt(mean(x ** 2, -1, keepdim)) * weight,
\* weight of shape (dim,) broadcasting against the last axis
RMSNormShape(s, dim_) ==
    BroadcastShape(s, [i \in 1 .. Len(s) |-> IF i = Len(s) THEN dim_ ELSE 1])

\* Attention.forward, on shapes: c_attn, the split into heads and back, c_proj
AttentionShape(s, dim_) ==
    LET a == LinearShape(s, dim_, 3 * dim_)
    IN  IF ~a.ok THEN Raised
        ELSE LinearShape([i \in 1 .. Len(s) |-> IF i = Len(s) THEN dim_ ELSE s[i]],
                         dim_, dim_)

\* MLP.forward, on shapes: fc1, silu, fc2
MLPShape(s, dim_) ==
    LET a == LinearShape(s, dim_, 4 * dim_)
    IN  IF ~a.ok THEN Raised ELSE LinearShape(a.shape, 4 * dim_, dim_)

\* x = x + sub(norm(x)), on shapes, sub being the attention or the MLP
SubLayerShape(s, dim_, att) ==
    LET n == RMSNormShape(s, dim_)
    IN  IF ~n.ok THEN Raised
        ELSE LET y == IF att THEN AttentionShape(n.shape, dim_)
                      ELSE MLPShape(n.shape, dim_)
             IN  IF ~y.ok THEN Raised ELSE BroadcastShape(s, y.shape)

\* TransformerBlock.forward, on shapes
BlockShape(s, dim_) ==
    LET a == SubLayerShape(s, dim_, TRUE)
    IN  IF ~a.ok THEN Raised ELSE SubLayerShape(a.shape, dim_, FALSE)

\* one iteration of the loop of TransformerLayers.forward, on shapes
StageShape(s, dim_) ==
    LET B == s[1]
        a == BlockShape(ShapeBFxTxD(s), dim_)
    IN  IF ~a.ok THEN Raised
        ELSE LET b == ShapeBTxFxD(a.shape, B)
             IN  IF ~b.ok THEN Raised
                 ELSE LET c == BlockShape(b.shape, dim_)
                      IN  IF ~c.ok THEN Raised ELSE ShapeBxDxTxF(c.shape, B)

\* TransformerBlock.forward: its i-th statement applies this sub-layer
SubLayer(i) == IF i = 1 THEN "att" ELSE "mlp"

\* TransformerBlock.forward: the norm the i-th statement applies first
SubNorm(i) == IF i = 1 THEN "att_norm" ELSE "ffn_norm"

\* the sub-layer without its residual sum: x = f(norm(x))
ResidualDropped(x, block, stage, i) ==
    <<[block |-> block, stage |-> stage, layer |-> SubLayer(i),
       norm |-> SubNorm(i), input |-> Len(x)]>>

\* x = x + f(norm(x)), x held as the sequence of the terms summed so far
\* (after the input of forward): the new term is f of the sum of the first
\* Len(x) terms
Residual(x, block, stage, i) ==
    Append(x, [block |-> block, stage |-> stage, layer |-> SubLayer(i),
               norm |-> SubNorm(i), input |-> Len(x)])

\* a grid whose cell (b, d, t, f) holds its own coordinates
Grid(B, D, T, F) ==
    [b \in R(B) |-> [d \in R(D) |-> [t \in R(T) |-> [f \in R(F) |-> <<b, d, t, f>>]]]]

StackInit ==
    /\ n_fft = 2
    /\ in_channels = 2 * cmplx_num
    /\ mel = NoTensor
    /\ BandIdle
    /\ \E d \in 1 .. MaxDim : Configured(2, 12, d, 1)
    /\ PatchIdle
    /\ FwdIdle
    /\ tl_pc = "idle"
    /\ tl_depth \in 1 .. MaxStackDepth
    /\ tl_shape = NoShape
    /\ tl_x = NoTensor
    /\ tl_stage = 0
    /\ tl_resid = <<>>

\* TransformerLayers.forward is called: _B, _D, _T, _F = x.shape
StackCall ==
    /\ tl_pc = "idle"
    /\ \E B \in 1 .. MaxGridB, T \in 1 .. MaxGridT, F \in 1 .. MaxGridF :
        /\ tl_shape' = <<B, dim, T, F>>
        /\ tl_x' = Grid(B, dim, T, F)
    /\ tl_pc' = "loop"
    /\ UNCHANGED <<tl_depth, tl_stage, tl_resid>>
    /\ UNCHANGED <<bandVars, cfgVars, patchVars, fwdVars>>

\* for t_transformer, f_transformer in self.transformers:
\*     x = rearrange(x, 'b d t f -> (b f) t d')
RearrangeTime ==
    /\ tl_pc = "loop"
    /\ tl_stage < tl_depth
    /\ tl_x' = RearrangeBFxTxD(tl_x)
    /\ tl_pc' = "t_1"
    /\ UNCHANGED <<tl_depth, tl_shape, tl_stage, tl_resid>>
    /\ UNCHANGED <<bandVars, cfgVars, patchVars, fwdVars>>

\* t_transformer(x), first statement: x = x + self.att(self.att_norm(x))
TimeFirst ==
    /\ tl_pc = "t_1"
    /\ tl_resid' = Residual(tl_resid, "t", tl_stage, 1)
    /\ tl_pc' = "t_2"
    /\ UNCHANGED <<tl_depth, tl_shape, tl_x, tl_stage>>
    /\ UNCHANGED <<bandVars, cfgVars, patchVars, fwdVars>>

\* t_transformer(x), second statement: x = x + self.mlp(self.ffn_norm(x))
TimeSecond ==
    /\ tl_pc = "t_2"
    /\ tl_resid' = Residual(tl_resid, "t", tl_stage, 2)
    /\ tl_pc' = "t_done"
    /\ UNCHANGED <<tl_depth, tl_shape, tl_x, tl_stage>>
    /\ UNCHANGED <<bandVars, cfgVars, patchVars, fwdVars>>

\* x = rearrange(x, '(b f) t d -> (b t) f d', b=_B)
RearrangeFreq ==
    /\ tl_pc = "t_done"
    /\ tl_x' = RearrangeBTxFxD(tl_x, tl_shape[1])
    /\ tl_pc' = "f_1"
    /\ UNCHANGED <<tl_depth, tl_shape, tl_stage, tl_resid>>
    /\ UNCHANGED <<bandVars, cfgVars, patchVars, fwdVars>>

\* f_transformer(x), first statement
FreqFirst ==
    /\ tl_pc = "f_1"
    /\ tl_resid' = Residual(tl_resid, "f", tl_stage, 1)
    /\ tl_pc' = "f_2"
    /\ UNCHANGED <<tl_depth, tl_shape, tl_x, tl_stage>>
    /\ UNCHANGED <<bandVars, cfgVars, patchVars, fwdVars>>

\* f_transformer(x), second statement
FreqSecond ==
    /\ tl_pc = "f_2"
    /\ tl_resid' = Residual(tl_resid, "f", tl_stage, 2)
    /\ tl_pc' = "f_done"
    /\ UNCHANGED <<tl_depth, tl_shape, tl_x, tl_stage>>
    /\ UNCHANGED <<bandVars, cfgVars, patchVars, fwdVars>>

\* x = rearrange(x, '(b t) f d -> b d t f', b=_B), the end of an iteration
RearrangeBack ==
    /\ tl_pc = "f_done"
    /\ tl_x' = RearrangeBxDxTxF(tl_x, tl_shape[1])
    /\ tl_stage' = tl_stage + 1
    /\ tl_pc' = "loop"
    /\ UNCHANGED <<tl_depth, tl_shape, tl_resid>>
    /\ UNCHANGED <<bandVars, cfgVars, patchVars, fwdVars>>

\* return x
StackReturn ==
    /\ tl_pc = "loop"
    /\ tl_stage = tl_depth
    /\ tl_pc' = "returned"
    /\ UNCHANGED <<tl_depth, tl_shape, tl_x, tl_stage, tl_resid>>
    /\ UNCHANGED <<bandVars, cfgVars, patchVars, fwdVars>>

StackNext ==
    \/ StackCall
    \/ RearrangeTime
    \/ TimeFirst
    \/ TimeSecond
    \/ RearrangeFreq
    \/ FreqFirst
    \/ FreqSecond
    \/ RearrangeBack
    \/ StackReturn

SpecStack == StackInit /\ [][StackNext]_vars

(***************************************************************************)
(* BSRoformer21a: construction and forward                                 *)
(***************************************************************************)
\* Attention.__init__ without its assertion
AttentionInitUnchecked(dim_, heads) == TRUE

\* Attention.__init__: assert dim % n_heads == 0
AttentionInit(dim_, heads) == dim_ % heads = 0

\* TransformerBlock.__init__: builds one Attention
TransformerBlockInit(dim_, heads) == AttentionInit(dim_, heads)

\* TransformerLayers.__init__: for _ in range(depth): a pair of TransformerBlock;
\* the number of pairs built, or an AssertionError
TransformerLayersInit(dim_, heads, depth_) ==
    IF depth_ >= 1 /\ ~TransformerBlockInit(dim_, heads)
    THEN [ok |-> FALSE, len |-> 0]
    ELSE [ok |-> TRUE, len |-> depth_]

\* BSRoformer21a.__init__: the depth passed to TransformerLayers
EncoderDepth(depth_) == 12

\* the values of the depth option tried: the default and another
DepthValues == {1, 12}

\* the values of the n_fft option tried
NfftValues == {2, 4, 6}

\* the values of the input_channels option, and the channel counts of a
\* mixture, tried
ChannelValues == {1, 2}

ModelInit ==
    /\ n_fft \in NfftValues
    /\ mel \in MelTables(n_fft, {0, One})
    /\ in_channels = 0
    /\ BandIdle
    /\ input_channels \in ChannelValues
    /\ depth \in DepthValues
    /\ dim \in 1 .. MaxDim
    /\ n_heads \in 1 .. MaxHeads
    /\ head_dim = 0
    /\ model = "new"
    /\ transformers = 0
    /\ PatchIdle
    /\ FwdIdle
    /\ StackIdle

\* BSRoformer21a.__init__
BSRoformer21aInit ==
    /\ model = "new"
    /\ head_dim' = dim \div n_heads
    /\ in_channels' = input_channels * cmplx_num
    /\ LET n == NBins(n_fft)
           banks == Concatenate(mel, n)
           enc == TransformerLayersInit(dim, n_heads, EncoderDepth(depth))
       IN  IF ~AssertPartition(banks, n)
           THEN /\ sti' = "failed"
                /\ model' = "failed"
                /\ UNCHANGED <<melbanks, indexes, transformers>>
           ELSE /\ sti' = "constructed"
                /\ melbanks' = banks
                /\ indexes' = [f \in R(mel_bins) |-> Nonzero(banks[f], n)]
                /\ IF enc.ok
                   THEN model' = "constructed" /\ transformers' = enc.len
                   ELSE model' = "failed" /\ UNCHANGED transformers
    /\ UNCHANGED <<n_fft, mel, nets, x_in, img, y_out, writes, band_pc>>
    /\ UNCHANGED <<input_channels, depth, dim, n_heads>>
    /\ UNCHANGED <<patchVars, fwdVars, stackVars>>

fwdRest == <<bandVars, cfgVars, patchVars, stackVars>>

\* forward(mixture): complex_sp = self.stft(mixture), of shape (b, c, t, f) with
\* f = n_fft // 2 + 1; batch_size and time_steps are read off it
FwdStft ==
    /\ model = "constructed"
    /\ fwd_pc = "idle"
    /\ \E B \in 1 .. MaxBatch, c \in ChannelValues,
          T \in 1 .. MaxSpecFrames, fin \in BOOLEAN :
        /\ mixture' = [channels |-> c, finite |-> fin]
        /\ complex_sp' = <<B, c, T, NBins(n_fft)>>
        /\ time_steps' = T
        /\ has_nan' = ~fin
    /\ fwd_pc' = "view_as_real"
    /\ UNCHANGED <<cur, stages_run, mask>>
    /\ UNCHANGED fwdRest

\* x = torch.view_as_real(complex_sp); x = rearrange(x, 'b c t f z -> b (c z) t f')
FwdViewAsReal ==
    /\ fwd_pc = "view_as_real"
    /\ cur' = <<complex_sp[1], complex_sp[2] * cmplx_num, complex_sp[3], complex_sp[4]>>
    /\ fwd_pc' = "transform"
    /\ UNCHANGED <<mixture, complex_sp, time_steps, has_nan, stages_run, mask>>
    /\ UNCHANGED fwdRest

\* x = self.stft_to_image.transform(x)
FwdTransform ==
    /\ fwd_pc = "transform"
    /\ LET r == TransformShape(cur, indexes, in_channels)
       IN  /\ cur' = r.shape
           /\ fwd_pc' = IF r.ok THEN "patchify" ELSE "raised"
    /\ UNCHANGED <<mixture, complex_sp, time_steps, has_nan, stages_run, mask>>
    /\ UNCHANGED fwdRest

\* x = self.patchify(x)
FwdPatchify ==
    /\ fwd_pc = "patchify"
    /\ LET r == patchify(cur, dim)
       IN  /\ cur' = r.shape
           /\ fwd_pc' = IF r.ok THEN "encoder" ELSE "raised"
    /\ UNCHANGED <<mixture, complex_sp, time_steps, has_nan, stages_run, mask>>
    /\ UNCHANGED fwdRest

\* x = self.encoder1(x): one iteration of the loop over self.transformers
FwdEncoderStage ==
    /\ fwd_pc = "encoder"
    /\ stages_run < transformers
    /\ LET r == StageShape(cur, dim)
       IN  /\ cur' = r.shape
           /\ fwd_pc' = IF r.ok THEN "encoder" ELSE "raised"
           /\ stages_run' = IF r.ok THEN stages_run + 1 ELSE stages_run
    /\ UNCHANGED <<mixture, complex_sp, time_steps, has_nan, mask>>
    /\ UNCHANGED fwdRest

\* x = self.encoder1(x): the loop is over, encoder1 returns
FwdEncoderReturn ==
    /\ fwd_pc = "encoder"
    /\ stages_run = transformers
    /\ fwd_pc' = "unpatchify"
    /\ UNCHANGED <<mixture, complex_sp, time_steps, cur, has_nan, stages_run, mask>>
    /\ UNCHANGED fwdRest

\* x = self.unpatchify(x, time_steps)
FwdUnpatchify ==
    /\ fwd_pc = "unpatchify"
    /\ LET r == unpatchify(cur, time_steps, dim)
       IN  /\ cur' = r.shape
           /\ fwd_pc' = IF r.ok THEN "inverse_transform" ELSE "raised"
    /\ UNCHANGED <<mixture, complex_sp, time_steps, has_nan, stages_run, mask>>
    /\ UNCHANGED fwdRest

\* x = self.stft_to_image.inverse_transform(x)
FwdInverseTransform ==
    /\ fwd_pc = "inverse_transform"
    /\ LET r == InverseShape(cur, indexes, in_channels, n_fft)
       IN  /\ cur' = r.shape
           /\ fwd_pc' = IF r.ok THEN "view_as_complex" ELSE "raised"
    /\ UNCHANGED <<mixture, complex_sp, time_steps, has_nan, stages_run, mask>>
    /\ UNCHANGED fwdRest

\* x = rearrange(x, 'b (c z) t f -> b c t f z', c=self.input_channels);
\* mask = torch.view_as_complex(x.contiguous()), which needs z = 2
FwdViewAsComplex ==
    /\ fwd_pc = "view_as_complex"
    /\ IF cur[2] % input_channels = 0 /\ cur[2] \div input_channels = 2
       THEN /\ mask' = <<cur[1], input_channels, cur[3], cur[4]>>
            /\ fwd_pc' = "mask"
       ELSE /\ mask' = NoShape
            /\ fwd_pc' = "raised"
    /\ UNCHANGED <<mixture, complex_sp, time_steps, cur, has_nan, stages_run>>
    /\ UNCHANGED fwdRest

\* sep_stft = mask * complex_sp
FwdMask ==
    /\ fwd_pc = "mask"
    /\ IF \A i \in 1 .. 4 : Broadcasts(mask[i], complex_sp[i])
       THEN /\ cur' = [i \in 1 .. 4 |->
                          IF mask[i] > complex_sp[i] THEN mask[i] ELSE complex_sp[i]]
            /\ fwd_pc' = "istft"
       ELSE /\ cur' = NoShape
            /\ fwd_pc' = "raised"
    /\ UNCHANGED <<mixture, complex_sp, time_steps, has_nan, stages_run, mask>>
    /\ UNCHANGED fwdRest

\* output = self.istft(sep_stft); return output
FwdIstft ==
    /\ fwd_pc = "istft"
    /\ fwd_pc' = "returned"
    /\ UNCHANGED <<mixture, complex_sp, time_steps, cur, has_nan, stages_run, mask>>
    /\ UNCHANGED fwdRest

ModelNext ==
    \/ BSRoformer21aInit
    \/ FwdStft
    \/ FwdViewAsReal
    \/ FwdTransform
    \/ FwdPatchify
    \/ FwdEncoderStage
    \/ FwdEncoderReturn
    \/ FwdUnpatchify
    \/ FwdInverseTransform
    \/ FwdViewAsComplex
    \/ FwdMask
    \/ FwdIstft

SpecModel == ModelInit /\ [][ModelNext]_vars


(***************************************************************************)
(* Properties of the band mapper                                           *)
(***************************************************************************)
\* the bands whose index set holds bin k
BandsOf(k) ==
    {f \in R(mel_bins) : \E p \in 1 .. Len(indexes[f]) : indexes[f][p] = k}

\* some bin lies in two bands, one of them with a fractional weight
Overlapping ==
    \E k \in R(NBins(n_fft)) :
        /\ Cardinality(BandsOf(k)) >= 2
        /\ \E f \in BandsOf(k) : melbanks[f][k] \notin {0, One}

IdentityNets == nets = [compress |-> "identity", expand |-> "identity"]

\* C1: construction succeeds exactly when, over the augmented table (first
\* edge band, the mel filters, last edge band), the weights at every bin sum
\* to 1; every constructed mapper holds that table and is a partition of unity.
C1_PartitionOfUnity ==
    LET n == NBins(n_fft)
        sums == [k \in R(n) |->
                    SumTo([f \in R(mel_bins) |-> Concatenate(mel, n)[f][k]], mel_bins)]
    IN  /\ sti = "constructed" =>
            /\ \A k \in R(n) : sums[k] = One
            /\ melbanks = Concatenate(mel, n)
            /\ \A k \in R(n) :
                   SumTo([f \in R(mel_bins) |-> melbanks[f][k]], mel_bins) = One
        /\ sti = "failed" => \E k \in R(n) : sums[k] # One

\* a mapper was constructed from a table whose bands overlap
C1_Witness == sti = "constructed" /\ Overlapping

\* C2: with identity projections, for every table that passed construction,
\* inverse_transform(transform(x)) returns, and is x at every (batch, channel,
\* time, bin) position (y is held as numerators over One).
C2_RoundTrip ==
    (band_pc \in {"inverted", "raised"} /\ IdentityNets) =>
        /\ band_pc = "inverted"
        /\ DOMAIN y_out = DOMAIN x_in
        /\ \A b \in DOMAIN x_in :
            /\ DOMAIN y_out[b] = DOMAIN x_in[b]
            /\ \A c \in DOMAIN x_in[b] :
                /\ DOMAIN y_out[b][c] = DOMAIN x_in[b][c]
                /\ \A t \in DOMAIN x_in[b][c] :
                    /\ DOMAIN y_out[b][c][t] = DOMAIN x_in[b][c][t]
                    /\ \A k \in DOMAIN x_in[b][c][t] :
                           y_out[b][c][t][k] = One * x_in[b][c][t][k]

\* C10: in a constructed mapper bin 0 and the last bin each lie in exactly one
\* band, an edge band, with weight 1; every bin lies in some band; and
\* inverse_transform adds at least one contribution to every output bin.
C10_EdgeBands ==
    LET n == NBins(n_fft)
    IN  /\ sti = "constructed" =>
            /\ BandsOf(0) = {0}
            /\ melbanks[0][0] = One
            /\ BandsOf(n - 1) = {mel_bins - 1}
            /\ melbanks[mel_bins - 1][n - 1] = One
            /\ \A k \in R(n) : BandsOf(k) # {}
        /\ band_pc \in {"inverted", "raised"} =>
            /\ band_pc = "inverted"
            /\ DOMAIN writes = R(n)
            /\ \A k \in R(n) : writes[k] >= 1 /\ writes[k] = Cardinality(BandsOf(k))

\* C3: patchify pads the time axis with zeros up to the least multiple of the
\* patch time extent that is >= T (fewer than a patch of frames, none when the
\* extent divides T), the frequency axis is not padded, and
\* unpatchify(patchify(x), T) has time length T and the input's band count.
C3_PadAndStrip ==
    LET p == patch_size[1]
        T == pe_x[3]
        L == Len(pe_frames)
    IN  /\ pe_pc # "idle" =>
            /\ L % p = 0
            /\ L >= T
            /\ L - T < p
            /\ (T % p = 0 => L = T)
            /\ \A i \in 1 .. L : pe_frames[i] <=> i <= T
        /\ pe_pc \in {"patchified", "unpatchified"} =>
            /\ pe_tokens[3] * p = L
            /\ pe_tokens[4] * patch_size[2] = pe_x[4]
        /\ pe_pc = "unpatchified" =>
            /\ pe_y[3] = T
            /\ pe_y[4] = pe_x[4]

\* a time length the patch extent does not divide went through both
C3_Witness ==
    /\ pe_pc = "unpatchified"
    /\ pe_x[3] % patch_size[1] # 0
    /\ pe_x[3] > patch_size[1]
    /\ Len(pe_frames) > pe_x[3]

\* C4: for a spectrogram of shape (batch, input_channels, T, n_fft/2+1) the
\* forward call does not raise, the complex mask has the spectrogram's shape,
\* and so has the masked spectrogram given to the synthesis transform.
C4_MaskShape ==
    /\ mixture.channels = input_channels => fwd_pc # "raised"
    /\ fwd_pc \in {"mask", "istft", "returned"} =>
        /\ mask = complex_sp
        /\ mask = <<complex_sp[1], input_channels, time_steps, n_fft \div 2 + 1>>
    /\ fwd_pc \in {"istft", "returned"} => cur = complex_sp

\* C5: the stack that forward runs has exactly `depth` paired stages, depth
\* being the option given at construction.
C5_DepthStages ==
    fwd_pc \in {"unpatchify", "inverse_transform", "view_as_complex",
               "mask", "istft", "returned"} => stages_run = depth

\* C6: a forward call whose input has a wrong channel count or holds a
\* non-finite value never returns an output.
C6_FailFast ==
    fwd_pc = "returned" => (mixture.channels = input_channels /\ mixture.finite)

\* C7: construction completes only when dim is a multiple of n_heads, and
\* aborts otherwise; head_dim is then exact.
C7_HeadsDivideDim ==
    /\ model = "constructed" => (dim % n_heads = 0 /\ head_dim * n_heads = dim)
    /\ (model # "new" /\ dim % n_heads # 0) => model = "failed"

\* construction got past the band mapper and aborted on the head count
C7_Witness ==
    /\ model = "failed"
    /\ sti = "constructed"
    /\ dim % n_heads # 0

\* the term the i-th sub-layer call of forward adds: per stage, the time block's
\* attention, the time block's feed-forward, the frequency block's attention,
\* the frequency block's feed-forward, each applied to the sum of all before it
ExpectedTerm(i) ==
    [block |-> IF (i - 1) % 4 < 2 THEN "t" ELSE "f",
     stage |-> (i - 1) \div 4,
     layer |-> IF (i - 1) % 2 = 0 THEN "att" ELSE "mlp",
     norm |-> IF (i - 1) % 2 = 0 THEN "att_norm" ELSE "ffn_norm",
     input |-> i - 1]

\* the sub-layer calls completed when the stack is at a given statement
TermsAt(pc, stage) ==
    4 * stage + (CASE pc = "t_2" -> 1
                   [] pc \in {"t_done", "f_1"} -> 2
                   [] pc = "f_2" -> 3
                   [] pc = "f_done" -> 4
                   [] OTHER -> 0)

\* C8: in every stage the sub-layers run in the order time attention, time
\* feed-forward, frequency attention, frequency feed-forward; stages run one
\* after the other; and every sub-layer adds its result to its own input.
C8_SubLayerOrder ==
    /\ \A i \in 1 .. Len(tl_resid) : tl_resid[i] = ExpectedTerm(i)
    /\ tl_pc # "idle" => Len(tl_resid) = TermsAt(tl_pc, tl_stage)
    /\ tl_pc = "returned" => Len(tl_resid) = 4 * tl_depth

\* a stack of at least two stages returned
C8_Witness == tl_pc = "returned" /\ tl_depth >= 2 /\ Len(tl_resid) >= 8

\* C9: the time block sees B*F sequences of length T, each the cells of one
\* (batch, frequency) pair in time order; the frequency block sees B*T
\* sequences of length F, each the cells of one (batch, time) pair in
\* frequency order; after a stage every cell is back at its grid position.
C9_AxisFolding ==
    LET B == tl_shape[1]
        D == tl_shape[2]
        T == tl_shape[3]
        F == tl_shape[4]
    IN  /\ tl_pc \in {"t_1", "t_2", "t_done"} =>
            /\ Shape3(tl_x) = <<B * F, T, D>>
            /\ \A r \in R(B * F) : \E b \in R(B), f \in R(F) :
                   \A t \in R(T), d \in R(D) : tl_x[r][t][d] = <<b, d, t, f>>
            /\ \A r1, r2 \in R(B * F) :
                   r1 # r2 => tl_x[r1][0][0] # tl_x[r2][0][0]
        /\ tl_pc \in {"f_1", "f_2", "f_done"} =>
            /\ Shape3(tl_x) = <<B * T, F, D>>
            /\ \A r \in R(B * T) : \E b \in R(B), t \in R(T) :
                   \A f \in R(F), d \in R(D) : tl_x[r][f][d] = <<b, d, t, f>>
            /\ \A r1, r2 \in R(B * T) :
                   r1 # r2 => tl_x[r1][0][0] # tl_x[r2][0][0]
        /\ tl_pc \in {"loop", "returned"} =>
            /\ Shape4(tl_x) = tl_shape
            /\ tl_x = Grid(B, D, T, F)

\* the frequency block of a second stage runs on a grid with two batches and
\* different time and frequency lengths
C9_Witness ==
    /\ tl_pc = "f_1"
    /\ tl_stage >= 1
    /\ tl_shape[1] >= 2
    /\ tl_shape[3] >= 2
    /\ tl_shape[4] >= 2
    /\ tl_shape[3] # tl_shape[4]
    /\ tl_shape[2] >= 2

====
